---- MODULE Spec2Model ----
(***************************************************************************)
(* A model of prefect.engine.executors.dask: the two executors             *)
(* DaskExecutor and SynchronousExecutor (start, submit, map, wait) and the *)
(* part of the dask backend their calls rely on (keys, task execution,     *)
(* gather / compute).                                                      *)
(***************************************************************************)
EXTENDS Integers, Sequences, FiniteSets, TLC

\* ---------------------------------------------------------------- bounds
MaxThreads == 2     \* threads that enter start() on the one executor
MaxSessions == 2    \* Clients constructed in one behaviour
MaxTasks == 2       \* tasks handed to the backend in one behaviour
MaxWait == 2        \* length of the list handed to wait
MaxClock == 2       \* ticks of the clock while one wait is blocked
MaxRuns == 2        \* evaluations of one delayed object (re-waits)
MaxN == 2           \* elements of the expanded maps

\* ------------------------------------------------------------- constants
NoClient == 0       \* self.client = None
NoTimeout == 0      \* timeout = None

Threads == 1..MaxThreads
Executors == {"dask", "sync"}
Fns == {"inc"}
Vals == {1, 2}

VARIABLES
    executor,     \* which class was constructed: "dask" or "sync"
    client,       \* DaskExecutor.client: NoClient or a session id
    sessions,     \* sessions[s]: "open" / "closed", the Clients constructed
    scope,        \* scope[t]: thread t's position inside start()
    outcome,      \* how the last start() call that exited ended
    syncDepth,    \* open dask.config.set(scheduler="synchronous") scopes
    sinceExit,    \* a start() scope exited and none was entered since
    lastSubmit,   \* the last submit call: executor, success, sinceExit
    tasks,        \* key -> task on the cluster / delayed object
    nextUid,      \* source of uuid4-based keys
    submitted,    \* the futures returned by submit, in call order
    counter,      \* side effect of the task functions: executions so far
    waitCall,     \* the wait call of the coordinating thread
    waitResult,   \* what the last wait returned
    mapCall,      \* the map call of the coordinating thread
    mapResult     \* what the last map returned

vars == <<executor, client, sessions, scope, outcome, syncDepth, sinceExit,
          lastSubmit, tasks, nextUid, submitted, counter, waitCall,
          waitResult, mapCall, mapResult>>

sessionVars == <<client, sessions, scope, outcome, syncDepth, sinceExit>>
taskVars == <<tasks, nextUid, submitted, counter>>
waitVars == <<waitCall, waitResult>>
mapVars == <<mapCall, mapResult>>

\* ------------------------------------------------- python dict operations
\* upstream_states and the elements of dict_to_list(maps) are dicts whose
\* keys are None (written "None") and edge keys.
Get(d, k, default) == IF k \in DOMAIN d THEN d[k] ELSE default

Pop(d, k) == [j \in DOMAIN d \ {k} |-> d[j]]

Update(d, e) ==
    [j \in DOMAIN d \cup DOMAIN e |-> IF j \in DOMAIN e THEN e[j] ELSE d[j]]

SetItem(d, k, v) == [j \in DOMAIN d \cup {k} |-> IF j = k THEN v ELSE d[j]]

RECURSIVE SumSeq(_)
SumSeq(s) == IF s = <<>> THEN 0 ELSE Head(s) + SumSeq(Tail(s))

\* The task function: a value computed from the upstream states it is given.
Eval(fn, us) ==
    LET a == SumSeq(Get(us, "None", <<>>)) + Get(us, "x", 0) + Get(us, "y", 0)
    IN IF fn = "inc" THEN a + 1 ELSE a

\* ------------------------------------------------------------ the backend
\* A dask key: the function's name and either a uuid4 (pure=False) or the
\* token of the function and its arguments (pure=True, Client.submit's
\* default).
Key(pure, fn, us, uid) ==
    [name |-> fn,
     uuid |-> IF pure THEN 0 ELSE uid,
     token |-> IF pure THEN {us} ELSE {}]

NewTask(fn, us) ==
    [fn |-> fn, us |-> us, status |-> "pending", runs |-> 0, result |-> 0,
     finishedAt |-> 0]

\* Client.submit / dask.delayed: a key the scheduler already knows names the
\* existing task; any other key is a new task.
ClientSubmit(ts, key, fn, us) ==
    IF key \in DOMAIN ts THEN ts
    ELSE [k \in DOMAIN ts \cup {key} |-> IF k = key THEN NewTask(fn, us) ELSE ts[k]]

ClientOpen == client # NoClient /\ sessions[client] = "open"

Idle == waitCall.pc # "gather" /\ mapCall.pc # "gather"

\* ------------------------------------------------------ DaskExecutor.start
IdleScope ==
    [pc |-> "idle", sid |-> NoClient, raised |-> FALSE, tdFailed |-> FALSE,
     pending |-> "none"]

NoOutcome ==
    [done |-> FALSE, raised |-> FALSE, tdFailed |-> FALSE, left |-> "none",
     clientAfter |-> NoClient]

\* Client(self.address, processes=self.processes).__enter__(): a new
\* session, or a failure that goes straight to the finally clause.
StartConstruct(t, ok) ==
    /\ executor = "dask"
    /\ scope[t].pc = "idle"
    /\ IF ok
       THEN /\ Len(sessions) < MaxSessions
            /\ sessions' = Append(sessions, "open")
            /\ scope' = [scope EXCEPT ![t] =
                   [IdleScope EXCEPT !.pc = "entered", !.sid = Len(sessions) + 1]]
       ELSE /\ sessions' = sessions
            /\ scope' = [scope EXCEPT ![t] =
                   [IdleScope EXCEPT !.pc = "finally", !.pending = "ConnectError"]]
    /\ UNCHANGED <<executor, client, outcome, syncDepth, sinceExit, lastSubmit>>
    /\ UNCHANGED <<taskVars, waitVars, mapVars>>

\* self.client = client; yield self.client
StartAssign(t) ==
    /\ executor = "dask"
    /\ scope[t].pc = "entered"
    /\ client' = scope[t].sid
    /\ scope' = [scope EXCEPT ![t].pc = "body"]
    /\ sinceExit' = FALSE
    /\ UNCHANGED <<executor, sessions, outcome, syncDepth, lastSubmit>>
    /\ UNCHANGED <<taskVars, waitVars, mapVars>>

\* The body of the with-statement ends, normally or by raising.
BodyEnd(t, raises) ==
    /\ executor = "dask"
    /\ scope[t].pc = "body"
    /\ scope' = [scope EXCEPT ![t].pc = "exit", ![t].raised = raises,
                              ![t].pending = IF raises THEN "BodyError" ELSE "none"]
    /\ UNCHANGED <<executor, client, sessions, outcome, syncDepth, sinceExit,
                   lastSubmit>>
    /\ UNCHANGED <<taskVars, waitVars, mapVars>>

\* The exception in flight after Client.__exit__: an exception raised by
\* __exit__ replaces the one the body raised.
ExitPending(pending, fails) == IF fails THEN "TeardownError" ELSE pending

\* Client.__exit__: the session is torn down; a teardown that fails leaves
\* the session in either state.
ClientExit(t, fails, after) ==
    /\ executor = "dask"
    /\ scope[t].pc = "exit"
    /\ after \in (IF fails THEN {"open", "closed"} ELSE {"closed"})
    /\ sessions' = [sessions EXCEPT ![scope[t].sid] = after]
    /\ scope' = [scope EXCEPT ![t].pc = "finally", ![t].tdFailed = fails,
                              ![t].pending = ExitPending(scope[t].pending, fails)]
    /\ UNCHANGED <<executor, client, outcome, syncDepth, sinceExit, lastSubmit>>
    /\ UNCHANGED <<taskVars, waitVars, mapVars>>

\* StartFinally without the reset of self.client.
StartFinally_KeepsClient(t) ==
    /\ executor = "dask"
    /\ scope[t].pc = "finally"
    /\ client' = client
    /\ outcome' = [done |-> TRUE, raised |-> scope[t].raised,
                   tdFailed |-> scope[t].tdFailed, left |-> scope[t].pending,
                   clientAfter |-> client']
    /\ scope' = [scope EXCEPT ![t] = IdleScope]
    /\ sinceExit' = TRUE
    /\ UNCHANGED <<executor, sessions, syncDepth, lastSubmit>>
    /\ UNCHANGED <<taskVars, waitVars, mapVars>>

\* finally: self.client = None; the exception in flight leaves start().
StartFinally(t) ==
    /\ executor = "dask"
    /\ scope[t].pc = "finally"
    /\ client' = NoClient
    /\ outcome' = [done |-> TRUE, raised |-> scope[t].raised,
                   tdFailed |-> scope[t].tdFailed, left |-> scope[t].pending,
                   clientAfter |-> client']
    /\ scope' = [scope EXCEPT ![t] = IdleScope]
    /\ sinceExit' = TRUE
    /\ UNCHANGED <<executor, sessions, syncDepth, lastSubmit>>
    /\ UNCHANGED <<taskVars, waitVars, mapVars>>

\* ----------------------------------------------- SynchronousExecutor.start
SyncStartEnter ==
    /\ executor = "sync"
    /\ syncDepth < MaxThreads
    /\ syncDepth' = syncDepth + 1
    /\ sinceExit' = FALSE
    /\ UNCHANGED <<executor, client, sessions, scope, outcome, lastSubmit>>
    /\ UNCHANGED <<taskVars, waitVars, mapVars>>

SyncStartExit ==
    /\ executor = "sync"
    /\ syncDepth > 0
    /\ syncDepth' = syncDepth - 1
    /\ sinceExit' = TRUE
    /\ UNCHANGED <<executor, client, sessions, scope, outcome, lastSubmit>>
    /\ UNCHANGED <<taskVars, waitVars, mapVars>>

\* ------------------------------------------------------------------ submit
\* submit without pure=False: the key is the token of fn and its arguments.
SubmitKey_Pure(fn, us, uid) == Key(TRUE, fn, us, uid)

\* DaskExecutor.submit: self.client.submit(fn, *args, **kwargs, pure=False)
SubmitKey(fn, us, uid) == Key(FALSE, fn, us, uid)

DaskSubmit(fn, us) ==
    /\ executor = "dask"
    /\ Idle
    /\ IF ClientOpen
       THEN /\ Cardinality(DOMAIN tasks) < MaxTasks
            /\ tasks' = ClientSubmit(tasks, SubmitKey(fn, us, nextUid), fn, us)
            /\ submitted' = Append(submitted, SubmitKey(fn, us, nextUid))
            /\ nextUid' = nextUid + 1
            /\ lastSubmit' = [by |-> "dask", ok |-> TRUE, afterExit |-> sinceExit]
       ELSE /\ lastSubmit' = [by |-> "dask", ok |-> FALSE, afterExit |-> sinceExit]
            /\ UNCHANGED <<tasks, submitted, nextUid>>
    /\ UNCHANGED <<executor, counter>>
    /\ UNCHANGED <<sessionVars, waitVars, mapVars>>

\* SynchronousExecutor.submit: dask.delayed(fn)(*args, **kwargs); the call of
\* a Delayed function is named by a uuid4 (pure is not set).
DelayedKey(fn, us, uid) == Key(FALSE, fn, us, uid)

SyncSubmit(fn, us) ==
    /\ executor = "sync"
    /\ Cardinality(DOMAIN tasks) < MaxTasks
    /\ tasks' = ClientSubmit(tasks, DelayedKey(fn, us, nextUid), fn, us)
    /\ submitted' = Append(submitted, DelayedKey(fn, us, nextUid))
    /\ nextUid' = nextUid + 1
    /\ lastSubmit' = [by |-> "sync", ok |-> TRUE, afterExit |-> sinceExit]
    /\ UNCHANGED <<executor, counter>>
    /\ UNCHANGED <<sessionVars, waitVars, mapVars>>

SubmitArgs == {[None |-> <<v>>] : v \in Vals}

\* ----------------------------------------------------- the cluster's work
\* A worker of the open session runs a pending task: the function is
\* executed once and its result stored under the task's key.
Complete(k) ==
    /\ executor = "dask"
    /\ ClientOpen
    /\ k \in DOMAIN tasks
    /\ tasks[k].status = "pending"
    /\ counter' = counter + 1
    /\ tasks' = [tasks EXCEPT ![k] =
           [@ EXCEPT !.status = "finished", !.runs = @ + 1,
                     !.result = Eval(tasks[k].fn, tasks[k].us),
                     !.finishedAt = counter + 1]]
    /\ UNCHANGED <<executor, nextUid, submitted, lastSubmit>>
    /\ UNCHANGED <<sessionVars, waitVars, mapVars>>

\* -------------------------------------------------------- DaskExecutor.wait
\* The lists of futures a caller may hand to wait.
FutureLists(ks) ==
    UNION {[1..n -> ks] : n \in 1..MaxWait}

\* gather handing the results back in the order the tasks finished.
Gather_AsCompleted(futures) ==
    LET n == Len(futures)
        p == CHOOSE q \in [1..n -> 1..n] :
                 /\ \A i, j \in 1..n : i # j => q[i] # q[j]
                 /\ \A i, j \in 1..n : i < j =>
                        tasks[futures[q[i]]].finishedAt <= tasks[futures[q[j]]].finishedAt
    IN [i \in 1..n |-> tasks[futures[p[i]]].result]

\* Client.gather(futures): the results of the futures, in the order listed.
Gather(futures) == [i \in 1..Len(futures) |-> tasks[futures[i]].result]

\* wait(futures, timeout) is self.client.gather(futures): the call blocks in
\* gather; the timeout is not handed on.
DaskWaitCall(futures, timeout) ==
    /\ executor = "dask"
    /\ Idle
    /\ ClientOpen
    /\ waitCall' = [pc |-> "gather", futures |-> futures, timeout |-> timeout,
                    elapsed |-> 0]
    /\ waitResult' = <<>>
    /\ UNCHANGED <<executor, lastSubmit, mapVars>>
    /\ UNCHANGED <<sessionVars, taskVars>>

\* Time passes while the caller is blocked in gather; the clock is read
\* against the timeout the caller gave.
Tick ==
    /\ waitCall.pc = "gather"
    /\ waitCall.timeout # NoTimeout
    /\ waitCall.elapsed < MaxClock
    /\ waitCall' = [waitCall EXCEPT !.elapsed = @ + 1]
    /\ UNCHANGED <<executor, lastSubmit, waitResult, mapVars>>
    /\ UNCHANGED <<sessionVars, taskVars>>

\* gather returns once every listed future is finished.
DaskWaitReturn ==
    /\ executor = "dask"
    /\ waitCall.pc = "gather"
    /\ \A i \in 1..Len(waitCall.futures) :
          tasks[waitCall.futures[i]].status = "finished"
    /\ waitResult' = Gather(waitCall.futures)
    /\ waitCall' = [waitCall EXCEPT !.pc = "returned"]
    /\ UNCHANGED <<executor, lastSubmit, mapVars>>
    /\ UNCHANGED <<sessionVars, taskVars>>

Timeouts == {NoTimeout, 1}

\* ------------------------------------------------- SynchronousExecutor.wait
Range(f) == {f[i] : i \in DOMAIN f}

\* dask.compute(futures)[0]: every delayed object of the list is evaluated
\* (once per call) and the values come back in the order listed.
Compute(futures) ==
    [i \in 1..Len(futures) |-> Eval(tasks[futures[i]].fn, tasks[futures[i]].us)]

SyncWait(futures, timeout) ==
    /\ executor = "sync"
    /\ \A k \in Range(futures) : tasks[k].runs < MaxRuns
    /\ tasks' = [k \in DOMAIN tasks |->
           IF k \in Range(futures)
           THEN [tasks[k] EXCEPT !.runs = @ + 1,
                                 !.result = Eval(tasks[k].fn, tasks[k].us)]
           ELSE tasks[k]]
    /\ counter' = counter + Cardinality(Range(futures))
    /\ waitResult' = Compute(futures)
    /\ waitCall' = [pc |-> "returned", futures |-> futures,
                    timeout |-> NoTimeout, elapsed |-> 0]
    /\ timeout \in Timeouts
    /\ UNCHANGED <<executor, nextUid, submitted, lastSubmit, mapVars>>
    /\ UNCHANGED sessionVars

\* --------------------------------------------------------- DaskExecutor.map
\* The elements of dict_to_list(maps): N dicts with the same keys, either
\* None for the non-keyed mapped values (a tuple) or "x" for a keyed edge.
ElemKeys == {{"None"}, {"x"}}

ElemsOf(ks) ==
    {[k \in ks |-> IF k = "None" THEN <<f[k]>> ELSE f[k]] : f \in [ks -> Vals]}

StatesLists ==
    UNION {UNION {[1..n -> ElemsOf(ks)] : n \in 0..MaxN} : ks \in ElemKeys}

\* The upstream_states handed to map: none, non-keyed values, or non-keyed
\* values and a keyed edge that is not mapped over.
UpstreamChoices == {<<>>, [None |-> <<5>>], [None |-> <<5>>, y |-> 7]}

\* The loop of mapper: upstream_states is updated in place with each element
\* and its None entry rebuilt from what it holds plus non_keyed; the result is
\* the upstream_states passed to client.submit for elements i..N.
RECURSIVE MapperLoop(_, _, _, _)
MapperLoop(states, us, non_keyed, i) ==
    IF i > Len(states) THEN <<>>
    ELSE LET u1 == Update(us, states[i])
             u2 == SetItem(u1, "None", Get(u1, "None", <<>>) \o non_keyed)
         IN <<u2>> \o MapperLoop(states, u2, non_keyed, i + 1)

\* client.submit(fn, *args, upstream_states=upstream_states, **kwargs) inside
\* mapper: pure is not passed, so the key is the token of fn and its arguments.
ChildKey(fn, us) == Key(TRUE, fn, us, 0)

RECURSIVE SubmitAll(_, _, _, _)
SubmitAll(ts, fn, passed, i) ==
    IF i > Len(passed) THEN ts
    ELSE SubmitAll(ClientSubmit(ts, ChildKey(fn, passed[i]), fn, passed[i]),
                   fn, passed, i + 1)

\* mapper putting each new future in front of the list.
MapperFutures_Prepend(fn, passed) ==
    [i \in 1..Len(passed) |-> ChildKey(fn, passed[Len(passed) + 1 - i])]

\* futures.append(client.submit(...)) for each element, in order.
MapperFutures(fn, passed) ==
    [i \in 1..Len(passed) |-> ChildKey(fn, passed[i])]

\* self.client.submit(mapper, maps, fn, ...): the organizer is handed to the
\* cluster and the caller goes on to gather its future.
MapCall(fn, states, us) ==
    /\ executor = "dask"
    /\ Idle
    /\ ClientOpen
    /\ Cardinality(DOMAIN tasks) + Len(states) <= MaxTasks
    /\ mapCall' = [pc |-> "gather", fn |-> fn, states |-> states, us |-> us,
                   org |-> "pending", passed |-> <<>>, futures |-> <<>>,
                   fresh |-> TRUE]
    /\ mapResult' = <<>>
    /\ UNCHANGED <<executor, lastSubmit, waitVars>>
    /\ UNCHANGED <<sessionVars, taskVars>>

\* mapper runs on a worker: it submits one child per element through the
\* worker's client and returns the list of their futures.
MapperRun ==
    /\ executor = "dask"
    /\ ClientOpen
    /\ mapCall.org = "pending"
    /\ LET non_keyed == Get(mapCall.us, "None", <<>>)
           passed == MapperLoop(mapCall.states, Pop(mapCall.us, "None"),
                                non_keyed, 1)
           futures == MapperFutures(mapCall.fn, passed)
       IN /\ tasks' = SubmitAll(tasks, mapCall.fn, passed, 1)
          /\ mapCall' = [mapCall EXCEPT !.org = "finished", !.passed = passed,
                 !.futures = futures,
                 !.fresh = \A i \in 1..Len(futures) : futures[i] \notin DOMAIN tasks]
    /\ UNCHANGED <<executor, nextUid, submitted, counter, lastSubmit>>
    /\ UNCHANGED mapResult
    /\ UNCHANGED <<sessionVars, waitVars>>

\* gather that also resolves the futures inside the organizer's list.
MapReturn_WaitsForChildren ==
    /\ executor = "dask"
    /\ mapCall.pc = "gather"
    /\ mapCall.org = "finished"
    /\ \A i \in 1..Len(mapCall.futures) :
          tasks[mapCall.futures[i]].status = "finished"
    /\ mapResult' = mapCall.futures
    /\ mapCall' = [mapCall EXCEPT !.pc = "returned"]
    /\ UNCHANGED <<executor, lastSubmit>>
    /\ UNCHANGED <<sessionVars, taskVars, waitVars>>

\* self.client.gather(future_list): returns the organizer's list once the
\* organizer has finished.
MapReturn ==
    /\ executor = "dask"
    /\ mapCall.pc = "gather"
    /\ mapCall.org = "finished"
    /\ mapResult' = mapCall.futures
    /\ mapCall' = [mapCall EXCEPT !.pc = "returned"]
    /\ UNCHANGED <<executor, lastSubmit>>
    /\ UNCHANGED <<sessionVars, taskVars, waitVars>>

\* ------------------------------------------------------------------- Init
NoWait == [pc |-> "idle", futures |-> <<>>, timeout |-> NoTimeout, elapsed |-> 0]

NoMap ==
    [pc |-> "idle", fn |-> "inc", states |-> <<>>, us |-> <<>>,
     org |-> "none", passed |-> <<>>, futures |-> <<>>, fresh |-> TRUE]

InitCommon ==
    /\ executor \in Executors
    /\ outcome = NoOutcome
    /\ sinceExit = FALSE
    /\ lastSubmit = [by |-> "none", ok |-> FALSE, afterExit |-> FALSE]
    /\ tasks = <<>>
    /\ nextUid = 1
    /\ submitted = <<>>
    /\ counter = 0
    /\ waitCall = NoWait
    /\ waitResult = <<>>
    /\ mapCall = NoMap
    /\ mapResult = <<>>

\* The executor as constructed: no session.
Init ==
    /\ InitCommon
    /\ client = NoClient
    /\ sessions = <<>>
    /\ scope = [t \in Threads |-> IdleScope]
    /\ syncDepth = 0

SessionNext ==
    \/ \E t \in Threads, ok \in BOOLEAN : StartConstruct(t, ok)
    \/ \E t \in Threads : StartAssign(t)
    \/ \E t \in Threads, raises \in BOOLEAN : BodyEnd(t, raises)
    \/ \E t \in Threads, fails \in BOOLEAN, after \in {"open", "closed"} :
          ClientExit(t, fails, after)
    \/ \E t \in Threads : StartFinally(t)
    \/ SyncStartEnter
    \/ SyncStartExit
    \/ DaskSubmit("inc", [None |-> <<1>>])
    \/ SyncSubmit("inc", [None |-> <<1>>])

Spec == Init /\ [][SessionNext]_vars

\* The executor inside an open start() scope: thread 1 is in the body of
\* `with executor.start():`.
InitOpen ==
    /\ InitCommon
    /\ IF executor = "dask"
       THEN /\ client = 1
            /\ sessions = <<"open">>
            /\ scope = [t \in Threads |->
                   IF t = 1 THEN [IdleScope EXCEPT !.pc = "body", !.sid = 1]
                   ELSE IdleScope]
            /\ syncDepth = 0
       ELSE /\ client = NoClient
            /\ sessions = <<>>
            /\ scope = [t \in Threads |-> IdleScope]
            /\ syncDepth = 1

TasksNext ==
    \/ \E fn \in Fns, us \in SubmitArgs : DaskSubmit(fn, us)
    \/ \E fn \in Fns, us \in SubmitArgs : SyncSubmit(fn, us)
    \/ \E k \in DOMAIN tasks : Complete(k)
    \/ \E fs \in FutureLists(DOMAIN tasks), to \in Timeouts : DaskWaitCall(fs, to)
    \/ Tick
    \/ DaskWaitReturn
    \/ \E fs \in FutureLists(DOMAIN tasks) : SyncWait(fs, NoTimeout)

SpecTasks == InitOpen /\ [][TasksNext]_vars

MapNext ==
    \/ DaskSubmit("inc", [None |-> <<1>>])
    \/ \E fn \in Fns, states \in StatesLists, us \in UpstreamChoices :
          MapCall(fn, states, us)
    \/ MapperRun
    \/ MapReturn
    \/ \E k \in DOMAIN tasks : Complete(k)

InitMap == InitOpen /\ executor = "dask"

SpecMap == InitMap /\ [][MapNext]_vars

\* ================================================================ claims

\* C1: wait returns the resolved values in the order in which the futures
\* were listed, whatever the order in which the tasks completed, for
\* DaskExecutor.wait and for SynchronousExecutor.wait.
C1_WaitKeepsListedOrder ==
    waitCall.pc = "returned" =>
        /\ Len(waitResult) = Len(waitCall.futures)
        /\ \A i \in 1..Len(waitCall.futures) :
              waitResult[i] = Eval(tasks[waitCall.futures[i]].fn,
                                   tasks[waitCall.futures[i]].us)

\* Two futures with different values, listed in the opposite order to the
\* one they completed in, have been waited for.
C1_Witness ==
    /\ executor = "dask"
    /\ waitCall.pc = "returned"
    /\ Len(waitCall.futures) = 2
    /\ waitResult[1] # waitResult[2]
    /\ tasks[waitCall.futures[1]].finishedAt > tasks[waitCall.futures[2]].finishedAt

\* C2 as stated: on either executor, a submit made after a start() scope
\* exited and before a new one is entered fails.
C2_NoSubmitAfterExit == lastSubmit.afterExit => ~lastSubmit.ok

\* C2 amended: on a DaskExecutor, a submit made after a start() scope exited
\* and before a new one is entered fails.
C2_DaskNoSubmitAfterExit ==
    (lastSubmit.by = "dask" /\ lastSubmit.afterExit) => ~lastSubmit.ok

\* A DaskExecutor's start() scope has exited and a submit made after it failed.
C2_Witness ==
    /\ lastSubmit.by = "dask"
    /\ lastSubmit.afterExit
    /\ ~lastSubmit.ok
    /\ outcome.done

\* C3: a DaskExecutor.wait with a timeout, on futures that do not complete
\* within it, is not still blocked once the timeout has passed.
C3_WaitTimesOut ==
    (/\ executor = "dask"
     /\ waitCall.pc = "gather"
     /\ waitCall.timeout # NoTimeout
     /\ \E i \in 1..Len(waitCall.futures) :
           tasks[waitCall.futures[i]].status # "finished")
    => waitCall.elapsed <= waitCall.timeout

\* C4: when the body raised and the teardown failed, the exception that
\* leaves start() is the body's; the client is None after start() exits.
C4_BodyExceptionSurvives ==
    outcome.done =>
        /\ outcome.clientAfter = NoClient
        /\ (outcome.raised /\ outcome.tdFailed) => outcome.left = "BodyError"

\* C5: map returns exactly one future per element of the expanded maps, and
\* the future at position i is the child submitted for the i-th element.
C5_MapReturnsOneFuturePerElement ==
    mapCall.pc = "returned" =>
        /\ Len(mapResult) = Len(mapCall.states)
        /\ \A i \in 1..Len(mapCall.states) :
              /\ mapResult[i] \in DOMAIN tasks
              /\ tasks[mapResult[i]].fn = mapCall.fn
              /\ \A k \in DOMAIN mapCall.states[i] :
                    IF k = "None"
                    THEN SubSeq(tasks[mapResult[i]].us[k], 1,
                                Len(mapCall.states[i][k])) = mapCall.states[i][k]
                    ELSE tasks[mapResult[i]].us[k] = mapCall.states[i][k]

\* map has returned two different futures for two different elements.
C5_Witness ==
    /\ mapCall.pc = "returned"
    /\ Len(mapCall.states) = 2
    /\ mapCall.states[1] # mapCall.states[2]
    /\ mapResult[1] # mapResult[2]

\* C6 as stated: map never waits for a task on the cluster, the fan-out
\* organizer included: whenever the caller is inside map, map can return.
C6_MapNeverBlocks == mapCall.pc = "gather" => ENABLED MapReturn

\* C6 amended: submit returns without waiting for any task, and map waits
\* for the fan-out organizer only: once the organizer has finished map can
\* return, whatever the state of the children.
C6_MapWaitsOnlyForOrganizer ==
    /\ (mapCall.pc = "gather" /\ mapCall.org = "finished") => ENABLED MapReturn
    /\ (Idle /\ Cardinality(DOMAIN tasks) < MaxTasks)
           => ENABLED DaskSubmit("inc", [None |-> <<1>>])

\* map has returned two futures and neither child has finished.
C6_Witness ==
    /\ mapCall.pc = "returned"
    /\ Len(mapResult) = 2
    /\ \A i \in 1..2 : tasks[mapResult[i]].status = "pending"

\* C7: the futures returned by submit are pairwise distinct, and once each
\* has been resolved the function has run once per submit call.
C7_SubmitNeverDeduplicates ==
    /\ \A i, j \in 1..Len(submitted) : i # j => submitted[i] # submitted[j]
    /\ \A i \in 1..Len(submitted) : submitted[i] \in DOMAIN tasks
    /\ (executor = "dask"
        /\ \A i \in 1..Len(submitted) : tasks[submitted[i]].status = "finished")
           => counter = Len(submitted)
    /\ (executor = "sync"
        /\ \A i \in 1..Len(submitted) : tasks[submitted[i]].runs = 1)
           => counter = Len(submitted)

\* Two submit calls with the same function and arguments were made and both
\* futures are resolved.
C7_Witness ==
    /\ Len(submitted) = 2
    /\ tasks[submitted[1]].fn = tasks[submitted[2]].fn
    /\ tasks[submitted[1]].us = tasks[submitted[2]].us
    /\ \A i \in 1..2 : tasks[submitted[i]].runs = 1
    /\ counter = 2

\* C8: the upstream_states passed to child i holds under None the i-th
\* element's non-keyed mapped values followed by the original non-keyed
\* values once, and under every other key of the element its value.
C8_ChildGetsOwnElementOnce ==
    mapCall.org = "finished" =>
        \A i \in 1..Len(mapCall.states) :
            /\ mapCall.passed[i]["None"] =
                   Get(mapCall.states[i], "None", <<>>)
                       \o Get(mapCall.us, "None", <<>>)
            /\ \A k \in DOMAIN mapCall.states[i] \ {"None"} :
                   mapCall.passed[i][k] = mapCall.states[i][k]

\* C9: every child of a map call gets a future of its own: none is shared
\* with another child or with a task the cluster already holds.
C9_MapNeverDeduplicates ==
    mapCall.org = "finished" =>
        /\ mapCall.fresh
        /\ \A i, j \in 1..Len(mapCall.futures) :
               i # j => mapCall.futures[i] # mapCall.futures[j]

\* C10: while some start() scope of the DaskExecutor is open, its client is
\* a session that has not been torn down.
C10_OpenScopeHasSession ==
    (\E t \in Threads : scope[t].pc = "body") => ClientOpen

====
